---- MODULE Spec2Model ----
(***************************************************************************)
(* Model of gernest/tafuta: a blocking Go (wasm) client over the host's    *)
(* asynchronous fetch primitive.  The modelled Client.Do is the most       *)
(* complete variant of the repository, src/fetch/main.go lines 754-813,    *)
(* together with NewResponse, resourceList.free and the policy enums.      *)
(*                                                                         *)
(* A call of Do runs in its own goroutine; the completion callback runs on *)
(* the callback goroutine of syscall/js, which handles queued callbacks in *)
(* order; the promise is settled by the host's event loop.                 *)
(***************************************************************************)
EXTENDS Integers, Sequences, FiniteSets, TLC

(***************************************************************************)
(* Bounds of the model.                                                    *)
(***************************************************************************)
\* the calls of Do that may run concurrently
NumCalls == 2
\* policy enum fields of a Request take the values 0..MaxEnum
MaxEnum == 3
\* the url of a resolved response has at most MaxUrlLen characters
MaxUrlLen == 5
\* the Headers object holds at most MaxHeaderValues values for a name
MaxHeaderValues == 2

Calls == 1..NumCalls

(***************************************************************************)
(* Optional values: nil is the empty sequence, a value v is <<v>>.         *)
(***************************************************************************)
Nil == <<>>
Some(v) == <<v>>

(***************************************************************************)
(* Policy enums and their wire strings.                                    *)
(***************************************************************************)
DefaultCache == 1
NoStore == 2
Reload == 4
NoCache == 8
ForceCache == 16
OnlyIfCached == 32

RequestCacheString(c) ==
    CASE c = DefaultCache -> "default"
      [] c = NoStore -> "no-store"
      [] c = Reload -> "reload"
      [] c = NoCache -> "no-cache"
      [] c = ForceCache -> "force-cache"
      [] c = OnlyIfCached -> "only-if-cached"
      [] OTHER -> ""

OmitCredential == 1
SameOrigin == 2
Include == 4

RequestCredentialsString(c) ==
    CASE c = OmitCredential -> "omit"
      [] c = SameOrigin -> "same-origin"
      [] c = Include -> "include"
      [] OTHER -> ""

SameOriginMode == 1
NoCORSMode == 2
CORSMode == 4
NavigateMode == 8

RequestModeString(m) ==
    CASE m = SameOriginMode -> "same-origin"
      [] m = NoCORSMode -> "no-cors"
      [] m = CORSMode -> "cors"
      [] m = NavigateMode -> "navigate"
      [] OTHER -> ""

FollowRedirect == 1
ErrorRedirect == 2
ManualRedirect == 4

RequestRedirectString(r) ==
    CASE r = FollowRedirect -> "follow"
      [] r = ErrorRedirect -> "error"
      [] r = ManualRedirect -> "manual"
      [] OTHER -> ""

BasicResponse == 1
CorsResponse == 2
ErrorResponse == 4
OpaqueResponse == 8
OpaqueRedirectResponse == 16

\* respTypMap, as the set of its <<key, string>> entries
respTypMap ==
    { <<BasicResponse, "basic">>, <<CorsResponse, "cors">>,
      <<ErrorResponse, "error">>, <<OpaqueResponse, "opaque">>,
      <<OpaqueRedirectResponse, "opaqueredirect">> }

\* reverseRespTypMap[s]: the key stored under s by init(), 0 when s is absent
reverseRespTypMap(s) ==
    IF \E e \in respTypMap : e[2] = s
    THEN (CHOOSE e \in respTypMap : e[2] = s)[1]
    ELSE 0

(***************************************************************************)
(* JavaScript values as Do sees them: a string, or a reference to an       *)
(* object of the host (a Headers object, a typed array).                   *)
(***************************************************************************)
JsString(s) == [type |-> "string", str |-> s, ref |-> 0]
JsObject(r) == [type |-> "object", str |-> "", ref |-> r]

(***************************************************************************)
(* url.Parse on strings over the alphabet {x, :, /, %}; a string is a      *)
(* sequence of characters.  x is the only letter, so every % starts an     *)
(* invalid escape and every port that is not empty is invalid.             *)
(***************************************************************************)
Letters == {"x"}
UrlAlphabet == {"x", ":", "/", "%"}

Index(s, ch) ==
    IF \E i \in 1..Len(s) : s[i] = ch
    THEN CHOOSE i \in 1..Len(s) : s[i] = ch /\ \A j \in 1..(i - 1) : s[j] # ch
    ELSE 0

LastIndex(s, ch) ==
    IF \E i \in 1..Len(s) : s[i] = ch
    THEN CHOOSE i \in 1..Len(s) : s[i] = ch /\ \A j \in (i + 1)..Len(s) : s[j] # ch
    ELSE 0

HasPrefix(s, p) == Len(s) >= Len(p) /\ SubSeq(s, 1, Len(p)) = p

\* getscheme: the scheme is the run of letters before the first ':'
getscheme(rawurl) ==
    LET bad == { i \in 1..Len(rawurl) : rawurl[i] \notin Letters }
        i == IF bad = {} THEN 0 ELSE CHOOSE k \in bad : \A j \in bad : k <= j
    IN  IF i = 0 THEN [ok |-> TRUE, scheme |-> <<>>, rest |-> rawurl]
        ELSE IF rawurl[i] = ":"
             THEN IF i = 1
                  THEN [ok |-> FALSE, scheme |-> <<>>, rest |-> <<>>]
                  ELSE [ok |-> TRUE, scheme |-> SubSeq(rawurl, 1, i - 1),
                        rest |-> SubSeq(rawurl, i + 1, Len(rawurl))]
             ELSE [ok |-> TRUE, scheme |-> <<>>, rest |-> rawurl]

\* unescape fails on a % that is not followed by two hex digits
unescapeOk(s) == Index(s, "%") = 0

\* validOptionalPort: empty, or ':' followed by digits only
validOptionalPort(port) == port = <<>> \/ port = <<":">>

\* parseHost
parseHostOk(host) ==
    LET i == LastIndex(host, ":")
    IN  /\ i # 0 => validOptionalPort(SubSeq(host, i, Len(host)))
        /\ unescapeOk(host)

UrlError == [ok |-> FALSE, Scheme |-> <<>>, Opaque |-> <<>>, Host |-> <<>>, Path |-> <<>>]

ParseURL(rawurl) ==
    LET gs == getscheme(rawurl)
        rest == gs.rest
        colon == Index(rest, ":")
        slash == Index(rest, "/")
    IN  IF ~gs.ok THEN UrlError
        ELSE IF ~HasPrefix(rest, <<"/">>) /\ gs.scheme # <<>>
        THEN [ok |-> TRUE, Scheme |-> gs.scheme, Opaque |-> rest, Host |-> <<>>, Path |-> <<>>]
        ELSE IF ~HasPrefix(rest, <<"/">>) /\ colon > 0 /\ (slash = 0 \/ colon < slash)
        THEN UrlError
        ELSE IF /\ HasPrefix(rest, <<"/", "/">>)
                /\ (gs.scheme # <<>> \/ ~HasPrefix(rest, <<"/", "/", "/">>))
        THEN LET after == SubSeq(rest, 3, Len(rest))
                 cut == Index(after, "/")
                 authority == IF cut = 0 THEN after ELSE SubSeq(after, 1, cut - 1)
                 path == IF cut = 0 THEN <<>> ELSE SubSeq(after, cut, Len(after))
             IN  IF parseHostOk(authority) /\ unescapeOk(path)
                 THEN [ok |-> TRUE, Scheme |-> gs.scheme, Opaque |-> <<>>,
                       Host |-> authority, Path |-> path]
                 ELSE UrlError
        ELSE IF unescapeOk(rest)
             THEN [ok |-> TRUE, Scheme |-> gs.scheme, Opaque |-> <<>>,
                   Host |-> <<>>, Path |-> rest]
             ELSE UrlError

(***************************************************************************)
(* Inputs: the Request given to Do and what the host's fetch does with it. *)
(***************************************************************************)
\* io.Reader bodies: present or nil, the bytes it yields, whether reading fails
NoBody == [present |-> FALSE, data |-> <<>>, fails |-> FALSE]
GoodBody == [present |-> TRUE, data |-> <<1, 2>>, fails |-> FALSE]
FailingBody == [present |-> TRUE, data |-> <<1>>, fails |-> TRUE]
Bodies == {NoBody, GoodBody, FailingBody}

\* a nil *Header, or the Header whose native Headers object is object 7
Headers == {Nil, Some([value |-> 7])}

EnumValues == 0..MaxEnum

DefaultRequest ==
    [isNil |-> FALSE, URL |-> "some.json", Method |-> "", Header |-> Nil,
     Mode |-> 0, Credentials |-> 0, Cache |-> 0, Redirect |-> 0,
     Referer |-> "", Integrity |-> "", Body |-> NoBody]

\* Do(nil)
NilRequest == [DefaultRequest EXCEPT !.isNil = TRUE]

Requests ==
    [isNil : {FALSE}, URL : {"some.json"}, Method : {"", "POST"}, Header : Headers,
     Mode : EnumValues, Credentials : EnumValues, Cache : EnumValues,
     Redirect : EnumValues, Referer : {"", "client"}, Integrity : {"", "sha256-x"},
     Body : Bodies] \cup {NilRequest}

\* requests that differ from the default one in the method and the body only
BasicRequests ==
    { [DefaultRequest EXCEPT !.Method = m, !.Body = b] : m \in {"", "POST"}, b \in Bodies }
        \cup {NilRequest}

\* requests of the calls that run concurrently
ConcRequests ==
    { DefaultRequest, [DefaultRequest EXCEPT !.Method = "POST", !.Body = GoodBody] }

\* the response object the promise of fetch resolves with
GoodUrl == <<"x", ":", "/", "/", "x">>
BadUrl == <<":", "x">>

DefaultJsResponse ==
    [ok |-> TRUE, status |-> 200, statusText |-> "OK", type |-> "basic",
     url |-> GoodUrl, headers |-> 9, redirected |-> FALSE]

Urls == UNION { [1..n -> UrlAlphabet] : n \in 0..MaxUrlLen }

TypeStrings == {"basic", "cors", "error", "opaque", "opaque-redirect", "opaqueredirect"}

JsResponses ==
    { [DefaultJsResponse EXCEPT !.url = u] : u \in Urls }
        \cup [ok : BOOLEAN, status : {200, 404}, statusText : {"OK", "Not Found"},
              type : TypeStrings, url : {GoodUrl, BadUrl},
              headers : {9}, redirected : BOOLEAN]

\* the two responses of the plain double of fetch
BasicJsResponses == { DefaultJsResponse, [DefaultJsResponse EXCEPT !.url = BadUrl] }

RejectMessages == {"network down"}

(***************************************************************************)
(* Resource handles: the typed array of the body and the callback of each  *)
(* call.                                                                   *)
(***************************************************************************)
BodyHandle(c) == 2 * c - 1
CallbackHandle(c) == 2 * c
\* the completion callback of Response.Text on the response of call c
TextHandle(c) == 2 * NumCalls + c
AllHandles == 1..(3 * NumCalls)
HandlesOf(c) == {BodyHandle(c), CallbackHandle(c)}

(***************************************************************************)
(* Errors.                                                                 *)
(***************************************************************************)
\* the error of ioutil.ReadAll
ReadError == [kind |-> "read", msg |-> "read failed"]
\* the error of url.Parse
UrlParseError == [kind |-> "url", msg |-> "parse"]
\* fmt.Errorf("%v", v)
Errorf(v) == [kind |-> "errorf", msg |-> v]

VARIABLES
    req,            \* req[c]: the *Request given to call c
    pc,             \* pc[c]: where call c of Do is
    opts,           \* opts[c]: the option map
    request,        \* request[c]: the arguments of the native Request, once constructed
    resources,      \* resources[c]: the resourceList of the call
    handles,        \* handles[h]: whether h was created, its bytes, how often it was released
    promise,        \* promise[c]: the promise fetch returned to call c
    cb,             \* cb[c]: the state of responseCallback of call c
    queue,          \* callbacks the host has invoked and Go has not run yet
    loop,           \* the call whose callback blocks the callback goroutine in its send, or 0
    res,            \* res[c]: the named result res
    err,            \* err[c]: the named result err
    panicking,      \* panicking[c]: the value of the panic that unwinds the call
    raised,         \* raised[c]: the value of the panic raised by the call or its callback
    fired,          \* fired[c]: the completion callback has run
    invocations,    \* invocations[c]: how often the call invoked fetch
    reads,          \* reads[c]: how often the call read the body stream
    double,         \* the repertoire of the host's fetch: "plain" or "rich"
    reader,         \* whether the caller reads the body of a Response with Text
    tpc,            \* tpc[c]: where the call of Text on the Response of call c is
    tpromise,       \* tpromise[c]: the promise of text() on that Response
    tcb,            \* tcb[c]: the state of the responseCallback of Text
    tres,           \* tres[c]: the named result res of Text
    tfired,         \* tfired[c]: the callback of Text has run
    tpanicking,     \* tpanicking[c]: the value of the panic that unwinds Text
    header,         \* header[n]: the values the native Headers object holds for name n
    lastGet,        \* the key and the result of Header.Get, when it was the last operation
    crashed         \* an unrecovered panic has ended the process

textVars == <<reader, tpc, tpromise, tcb, tres, tfired, tpanicking>>

headerVars == <<header, lastGet>>

vars == <<req, pc, opts, request, resources, handles, promise, cb, queue, loop,
          res, err, panicking, raised, fired, invocations, reads, double, crashed,
          textVars, headerVars>>

\* the names of headers the callers use, and the names the Headers object keeps
HeaderNames == {"a", "A", "get"}
Lower(n) == IF n = "A" THEN "a" ELSE n
StoredNames == {Lower(n) : n \in HeaderNames}
HeaderValues == {"v", "w"}

\* the texts a response body decodes to
Texts == {"hello", "bye"}
NoTextPromise == [state |-> "none", value |-> JsString(""), msg |-> ""]

NoHandle == [created |-> FALSE, bytes |-> <<>>, releases |-> 0]
NoPromise == [state |-> "none", value |-> DefaultJsResponse, msg |-> ""]
EmptyOpts == [k \in {} |-> JsString("")]

InitWith(r, p, d) ==
    /\ req = r
    /\ double = d
    /\ pc = p
    /\ opts = [c \in Calls |-> EmptyOpts]
    /\ request = [c \in Calls |-> Nil]
    /\ resources = [c \in Calls |-> <<>>]
    /\ handles = [h \in AllHandles |-> NoHandle]
    /\ promise = [c \in Calls |-> NoPromise]
    /\ cb = [c \in Calls |-> "none"]
    /\ queue = <<>>
    /\ loop = 0
    /\ res = [c \in Calls |-> Nil]
    /\ err = [c \in Calls |-> Nil]
    /\ panicking = [c \in Calls |-> Nil]
    /\ raised = [c \in Calls |-> Nil]
    /\ fired = [c \in Calls |-> FALSE]
    /\ invocations = [c \in Calls |-> 0]
    /\ reads = [c \in Calls |-> 0]
    /\ crashed = FALSE
    /\ tpc = [c \in Calls |-> "idle"]
    /\ tpromise = [c \in Calls |-> NoTextPromise]
    /\ tcb = [c \in Calls |-> "none"]
    /\ tres = [c \in Calls |-> ""]
    /\ tfired = [c \in Calls |-> FALSE]
    /\ tpanicking = [c \in Calls |-> Nil]
    /\ header = [n \in StoredNames |-> <<>>]
    /\ lastGet = Nil

\* one call of Do with a request of rs, on a host with repertoire d
SingleCall(rs, d) ==
    \E r \in rs :
        InitWith([c \in Calls |-> IF c = 1 THEN r ELSE DefaultRequest],
                 [c \in Calls |-> IF c = 1 THEN "assemble" ELSE "idle"], d)

\* every call of Calls runs, each in its own goroutine
ConcurrentCalls ==
    \E r \in [Calls -> ConcRequests] : InitWith(r, [c \in Calls |-> "assemble"], "plain")

Init ==
    \/ SingleCall(Requests, "plain") /\ reader = FALSE
    \/ SingleCall(BasicRequests, "rich") /\ reader = FALSE
    \/ SingleCall(BasicRequests, "plain") /\ reader = TRUE
    \/ ConcurrentCalls /\ reader = FALSE

(***************************************************************************)
(* Client.Do, one action per step of its goroutine.                        *)
(***************************************************************************)
\* the values the runtime and the host panic with
NilDerefPanic == "invalid memory address or nil pointer dereference"
NewRequestPanic == "TypeError: Request"
InvokePanic == "TypeError: fetch"
ThenPanic == "TypeError: then"
NewResponsePanic == "syscall/js: call of Value.Int on undefined"

\* a panic in the goroutine of Do: the call unwinds to its deferred function
Panic(c, v) ==
    /\ panicking' = [panicking EXCEPT ![c] = Some(v)]
    /\ raised' = [raised EXCEPT ![c] = Some(v)]
    /\ pc' = [pc EXCEPT ![c] = "deferred"]

\* OptionKeys without the redirect, referrer and integrity options
OptionKeysShort(r) ==
    {k \in {"method"} : r.Method # ""}
        \cup {k \in {"headers"} : r.Header # Nil}
        \cup {k \in {"mode"} : RequestModeString(r.Mode) # ""}
        \cup {k \in {"credentials"} : RequestCredentialsString(r.Credentials) # ""}
        \cup {k \in {"cache"} : RequestCacheString(r.Cache) # ""}

\* OptionKeys with the cache option set whenever Cache is not zero
OptionKeysCacheUnchecked(r) ==
    {k \in {"method"} : r.Method # ""}
        \cup {k \in {"headers"} : r.Header # Nil}
        \cup {k \in {"mode"} : RequestModeString(r.Mode) # ""}
        \cup {k \in {"credentials"} : RequestCredentialsString(r.Credentials) # ""}
        \cup {k \in {"cache"} : r.Cache # 0}
        \cup {k \in {"redirect"} : RequestRedirectString(r.Redirect) # ""}
        \cup {k \in {"referrer"} : r.Referer # ""}
        \cup {k \in {"integrity"} : r.Integrity # ""}

\* the option map built from the fields of the request, the body apart
OptionKeys(r) ==
    {k \in {"method"} : r.Method # ""}
        \cup {k \in {"headers"} : r.Header # Nil}
        \cup {k \in {"mode"} : RequestModeString(r.Mode) # ""}
        \cup {k \in {"credentials"} : RequestCredentialsString(r.Credentials) # ""}
        \cup {k \in {"cache"} : RequestCacheString(r.Cache) # ""}
        \cup {k \in {"redirect"} : RequestRedirectString(r.Redirect) # ""}
        \cup {k \in {"referrer"} : r.Referer # ""}
        \cup {k \in {"integrity"} : r.Integrity # ""}

OptionValue(r, k) ==
    CASE k = "method" -> JsString(r.Method)
      [] k = "headers" -> JsObject(r.Header[1].value)
      [] k = "mode" -> JsString(RequestModeString(r.Mode))
      [] k = "credentials" -> JsString(RequestCredentialsString(r.Credentials))
      [] k = "cache" -> JsString(RequestCacheString(r.Cache))
      [] k = "redirect" -> JsString(RequestRedirectString(r.Redirect))
      [] k = "referrer" -> JsString(r.Referer)
      [] k = "integrity" -> JsString(r.Integrity)

AssembleOpts(r) == [k \in OptionKeys(r) |-> OptionValue(r, k)]

\* opts[k] = v
SetOpt(o, key, v) == [k \in DOMAIN o \cup {key} |-> IF k = key THEN v ELSE o[k]]

\* lines 764-789: req.URL panics on a nil request, else the options are set
DoAssemble(c) ==
    /\ ~crashed
    /\ pc[c] = "assemble"
    /\ IF req[c].isNil
       THEN /\ Panic(c, NilDerefPanic)
            /\ UNCHANGED opts
       ELSE /\ opts' = [opts EXCEPT ![c] = AssembleOpts(req[c])]
            /\ pc' = [pc EXCEPT ![c] = "body"]
            /\ UNCHANGED <<panicking, raised>>
    /\ UNCHANGED <<req, request, resources, handles, promise, cb, queue, loop,
                   res, err, fired, invocations, reads, crashed, double,
                   textVars, headerVars>>

\* DoBody that goes on after a failed read
DoBodyIgnoreError(c) ==
    /\ ~crashed
    /\ pc[c] = "body"
    /\ IF ~req[c].Body.present
       THEN /\ pc' = [pc EXCEPT ![c] = "newRequest"]
            /\ UNCHANGED <<reads, res, err, handles, resources, opts>>
       ELSE /\ reads' = [reads EXCEPT ![c] = @ + 1]
            /\ handles' = [handles EXCEPT ![BodyHandle(c)] =
                              [created |-> TRUE, bytes |-> req[c].Body.data,
                               releases |-> 0]]
            /\ resources' = [resources EXCEPT ![c] = Append(@, BodyHandle(c))]
            /\ opts' = [opts EXCEPT ![c] = SetOpt(@, "body", JsObject(BodyHandle(c)))]
            /\ pc' = [pc EXCEPT ![c] = "newRequest"]
            /\ UNCHANGED <<res, err>>
    /\ UNCHANGED <<req, request, promise, cb, queue, loop, panicking, raised,
                   fired, invocations, crashed, double,
                   textVars, headerVars>>

\* DoBody that stops reading one byte before the end of the stream
DoBodyPartial(c) ==
    /\ ~crashed
    /\ pc[c] = "body"
    /\ IF ~req[c].Body.present
       THEN /\ pc' = [pc EXCEPT ![c] = "newRequest"]
            /\ UNCHANGED <<reads, res, err, handles, resources, opts>>
       ELSE /\ reads' = [reads EXCEPT ![c] = @ + 1]
            /\ IF req[c].Body.fails
               THEN /\ res' = [res EXCEPT ![c] = Nil]
                    /\ err' = [err EXCEPT ![c] = Some(ReadError)]
                    /\ pc' = [pc EXCEPT ![c] = "deferred"]
                    /\ UNCHANGED <<handles, resources, opts>>
               ELSE /\ handles' = [handles EXCEPT ![BodyHandle(c)] =
                                      [created |-> TRUE,
                                       bytes |-> SubSeq(req[c].Body.data, 1,
                                                        Len(req[c].Body.data) - 1),
                                       releases |-> 0]]
                    /\ resources' = [resources EXCEPT ![c] = Append(@, BodyHandle(c))]
                    /\ opts' = [opts EXCEPT ![c] = SetOpt(@, "body", JsObject(BodyHandle(c)))]
                    /\ pc' = [pc EXCEPT ![c] = "newRequest"]
                    /\ UNCHANGED <<res, err>>
    /\ UNCHANGED <<req, request, promise, cb, queue, loop, panicking, raised,
                   fired, invocations, crashed, double,
                   textVars, headerVars>>

\* lines 791-799: the body is read whole, wrapped in a typed array and registered
DoBody(c) ==
    /\ ~crashed
    /\ pc[c] = "body"
    /\ IF ~req[c].Body.present
       THEN /\ pc' = [pc EXCEPT ![c] = "newRequest"]
            /\ UNCHANGED <<reads, res, err, handles, resources, opts>>
       ELSE /\ reads' = [reads EXCEPT ![c] = @ + 1]
            /\ IF req[c].Body.fails
               THEN /\ res' = [res EXCEPT ![c] = Nil]
                    /\ err' = [err EXCEPT ![c] = Some(ReadError)]
                    /\ pc' = [pc EXCEPT ![c] = "deferred"]
                    /\ UNCHANGED <<handles, resources, opts>>
               ELSE /\ handles' = [handles EXCEPT ![BodyHandle(c)] =
                                      [created |-> TRUE, bytes |-> req[c].Body.data,
                                       releases |-> 0]]
                    /\ resources' = [resources EXCEPT ![c] = Append(@, BodyHandle(c))]
                    /\ opts' = [opts EXCEPT ![c] = SetOpt(@, "body", JsObject(BodyHandle(c)))]
                    /\ pc' = [pc EXCEPT ![c] = "newRequest"]
                    /\ UNCHANGED <<res, err>>
    /\ UNCHANGED <<req, request, promise, cb, queue, loop, panicking, raised,
                   fired, invocations, crashed, double,
                   textVars, headerVars>>

\* RequestArgs that never forwards the option map
RequestArgsUrlOnly(url, o) == [url |-> url, hasOpts |-> FALSE, opts |-> EmptyOpts]

\* args: the url, and the option map when it is not empty
RequestArgs(url, o) ==
    IF Cardinality(DOMAIN o) > 0
    THEN [url |-> url, hasOpts |-> TRUE, opts |-> o]
    ELSE [url |-> url, hasOpts |-> FALSE, opts |-> EmptyOpts]

\* lines 800-803: the native Request is constructed; the constructor may throw
DoNewRequest(c) ==
    /\ ~crashed
    /\ pc[c] = "newRequest"
    /\ \/ /\ request' = [request EXCEPT ![c] = Some(RequestArgs(req[c].URL, opts[c]))]
          /\ pc' = [pc EXCEPT ![c] = "newCallback"]
          /\ UNCHANGED <<panicking, raised>>
       \/ /\ Panic(c, NewRequestPanic)
          /\ UNCHANGED request
    /\ UNCHANGED <<req, opts, resources, handles, promise, cb, queue, loop,
                   res, err, fired, invocations, reads, crashed, double,
                   textVars, headerVars>>

\* lines 804-807: js.NewCallback
DoNewCallback(c) ==
    /\ ~crashed
    /\ pc[c] = "newCallback"
    /\ handles' = [handles EXCEPT ![CallbackHandle(c)] =
                      [created |-> TRUE, bytes |-> <<>>, releases |-> 0]]
    /\ cb' = [cb EXCEPT ![c] = "created"]
    /\ pc' = [pc EXCEPT ![c] = "invoke"]
    /\ UNCHANGED <<req, opts, request, resources, promise, queue, loop, res, err,
                   panicking, raised, fired, invocations, reads, crashed, double,
                   textVars, headerVars>>

\* line 808: fetch is invoked and returns a promise, or throws
DoInvoke(c) ==
    /\ ~crashed
    /\ pc[c] = "invoke"
    /\ invocations' = [invocations EXCEPT ![c] = @ + 1]
    /\ \/ /\ promise' = [promise EXCEPT ![c].state = "pending"]
          /\ pc' = [pc EXCEPT ![c] = "register"]
          /\ UNCHANGED <<panicking, raised>>
       \/ /\ Panic(c, InvokePanic)
          /\ UNCHANGED promise
    /\ UNCHANGED <<req, opts, request, resources, handles, cb, queue, loop,
                   res, err, fired, reads, crashed, double,
                   textVars, headerVars>>

\* line 809: the callback joins the resource list
DoRegister(c) ==
    /\ ~crashed
    /\ pc[c] = "register"
    /\ resources' = [resources EXCEPT ![c] = Append(@, CallbackHandle(c))]
    /\ pc' = [pc EXCEPT ![c] = "then"]
    /\ UNCHANGED <<req, opts, request, handles, promise, cb, queue, loop, res, err,
                   panicking, raised, fired, invocations, reads, crashed, double,
                   textVars, headerVars>>

\* line 810: the callback is attached to the success path of the promise
DoThen(c) ==
    /\ ~crashed
    /\ pc[c] = "then"
    /\ \/ /\ cb' = [cb EXCEPT ![c] = "attached"]
          /\ pc' = [pc EXCEPT ![c] = "wait"]
          /\ UNCHANGED <<panicking, raised>>
       \/ /\ Panic(c, ThenPanic)
          /\ UNCHANGED cb
    /\ UNCHANGED <<req, opts, request, resources, handles, promise, queue, loop,
                   res, err, fired, invocations, reads, crashed, double,
                   textVars, headerVars>>

\* DoWait that does not wait for the send of the callback
DoWaitNoBlock(c) ==
    /\ ~crashed
    /\ pc[c] = "wait"
    /\ pc' = [pc EXCEPT ![c] = "deferred"]
    /\ UNCHANGED <<req, opts, request, resources, handles, promise, cb, queue, loop,
                   res, err, panicking, raised, fired, invocations, reads, crashed, double,
                   textVars, headerVars>>

\* DoWait on a done channel that the calls share: any callback's send ends it
DoWaitSharedDone(c) ==
    /\ ~crashed
    /\ pc[c] = "wait"
    /\ loop \in Calls
    /\ loop' = 0
    /\ cb' = [cb EXCEPT ![loop] = "done"]
    /\ pc' = [pc EXCEPT ![c] = "deferred"]
    /\ UNCHANGED <<req, opts, request, resources, handles, promise, queue, res, err,
                   panicking, raised, fired, invocations, reads, crashed, double,
                   textVars, headerVars>>

\* line 811 with line 806: the receive of Do meets the send of the callback
DoWait(c) ==
    /\ ~crashed
    /\ pc[c] = "wait"
    /\ loop = c
    /\ loop' = 0
    /\ cb' = [cb EXCEPT ![c] = "done"]
    /\ pc' = [pc EXCEPT ![c] = "deferred"]
    /\ UNCHANGED <<req, opts, request, resources, handles, promise, queue, res, err,
                   panicking, raised, fired, invocations, reads, crashed, double,
                   textVars, headerVars>>

\* resourceList.free: every handle of the list is released, in order
RECURSIVE free(_, _)
free(r, h) ==
    IF r = <<>> THEN h
    ELSE free(Tail(r), [h EXCEPT ![Head(r)].releases = @ + 1])

\* DoDefer whose recover drops the value of the panic
DoDeferSwallow(c) ==
    /\ ~crashed
    /\ pc[c] = "deferred"
    /\ handles' = free(resources[c], handles)
    /\ panicking' = [panicking EXCEPT ![c] = Nil]
    /\ pc' = [pc EXCEPT ![c] = "returned"]
    /\ UNCHANGED <<req, opts, request, resources, promise, cb, queue, loop, res, err,
                   raised, fired, invocations, reads, crashed, double,
                   textVars, headerVars>>

\* lines 756-763 and 812: the deferred function frees the resources and
\* recovers a panic into err; then Do returns
DoDefer(c) ==
    /\ ~crashed
    /\ pc[c] = "deferred"
    /\ handles' = free(resources[c], handles)
    /\ IF panicking[c] # Nil
       THEN /\ err' = [err EXCEPT ![c] = Some(Errorf(panicking[c][1]))]
            /\ panicking' = [panicking EXCEPT ![c] = Nil]
       ELSE UNCHANGED <<err, panicking>>
    /\ pc' = [pc EXCEPT ![c] = "returned"]
    /\ UNCHANGED <<req, opts, request, resources, promise, cb, queue, loop, res,
                   raised, fired, invocations, reads, crashed, double,
                   textVars, headerVars>>

(***************************************************************************)
(* The host: the promise settles, and a resolved promise invokes the       *)
(* callback attached to it.                                                *)
(***************************************************************************)
\* the responses the model lets the promise of call c resolve with
ResponsesFor(c) ==
    IF double = "rich" THEN JsResponses ELSE BasicJsResponses

PromiseResolve(c) ==
    /\ ~crashed
    /\ promise[c].state = "pending"
    /\ \E v \in ResponsesFor(c) :
          promise' = [promise EXCEPT ![c] = [state |-> "resolved", value |-> v, msg |-> ""]]
    /\ UNCHANGED <<req, pc, opts, request, resources, handles, cb, queue, loop, res, err,
                   panicking, raised, fired, invocations, reads, crashed, double,
                   textVars, headerVars>>

PromiseReject(c) ==
    /\ ~crashed
    /\ promise[c].state = "pending"
    /\ \E m \in RejectMessages :
          promise' = [promise EXCEPT ![c] = [state |-> "rejected",
                                             value |-> DefaultJsResponse, msg |-> m]]
    /\ UNCHANGED <<req, pc, opts, request, resources, handles, cb, queue, loop, res, err,
                   panicking, raised, fired, invocations, reads, crashed, double,
                   textVars, headerVars>>

\* the promise calls its onFulfilled callback: the call is queued for Go
ThenFire(c) ==
    /\ ~crashed
    /\ promise[c].state = "resolved"
    /\ cb[c] = "attached"
    /\ cb' = [cb EXCEPT ![c] = "queued"]
    /\ queue' = Append(queue, c)
    /\ UNCHANGED <<req, pc, opts, request, resources, handles, promise, loop, res, err,
                   panicking, raised, fired, invocations, reads, crashed, double,
                   textVars, headerVars>>

(***************************************************************************)
(* NewResponse and the completion callback.                                *)
(***************************************************************************)
\* NewResponse that leaves Status at its zero value
NewResponseNoStatus(v) ==
    LET u == ParseURL(v.url)
    IN  IF ~u.ok
        THEN [res |-> Nil, err |-> Some(UrlParseError)]
        ELSE [res |-> Some([Headers |-> [value |-> v.headers], Ok |-> v.ok,
                            Redirected |-> FALSE, Status |-> 0,
                            StatusText |-> v.statusText,
                            Type |-> reverseRespTypMap(v.type), URL |-> u, value |-> v]),
              err |-> Nil]

\* NewResponse that ignores the error of url.Parse
NewResponseIgnoreUrlError(v) ==
    LET u == ParseURL(v.url)
    IN  [res |-> Some([Headers |-> [value |-> v.headers], Ok |-> v.ok,
                       Redirected |-> FALSE, Status |-> v.status,
                       StatusText |-> v.statusText,
                       Type |-> reverseRespTypMap(v.type), URL |-> u, value |-> v]),
         err |-> Nil]

\* lines 712-727
NewResponse(v) ==
    LET u == ParseURL(v.url)
    IN  IF ~u.ok
        THEN [res |-> Nil, err |-> Some(UrlParseError)]
        ELSE [res |-> Some([Headers |-> [value |-> v.headers],
                            Ok |-> v.ok,
                            Redirected |-> FALSE,
                            Status |-> v.status,
                            StatusText |-> v.statusText,
                            Type |-> reverseRespTypMap(v.type),
                            URL |-> u,
                            value |-> v]),
              err |-> Nil]

\* lines 804-807: the callback goroutine runs the oldest queued callback; it
\* sets res and err of its call and blocks in the send on done.  A panic in
\* NewResponse is a panic of the callback goroutine: nothing recovers it.
CallbackRun ==
    /\ ~crashed
    /\ loop = 0
    /\ queue # <<>>
    /\ Head(queue) \in Calls
    /\ LET c == Head(queue)
       IN  /\ queue' = Tail(queue)
           /\ \/ /\ res' = [res EXCEPT ![c] = NewResponse(promise[c].value).res]
                 /\ err' = [err EXCEPT ![c] = NewResponse(promise[c].value).err]
                 /\ fired' = [fired EXCEPT ![c] = TRUE]
                 /\ cb' = [cb EXCEPT ![c] = "sending"]
                 /\ loop' = c
                 /\ UNCHANGED <<raised, crashed>>
              \/ /\ raised' = [raised EXCEPT ![c] = Some(NewResponsePanic)]
                 /\ crashed' = TRUE
                 /\ UNCHANGED <<res, err, fired, cb, loop>>
    /\ UNCHANGED <<req, pc, opts, request, resources, handles, promise, panicking,
                   invocations, reads, double,
                   textVars, headerVars>>

(***************************************************************************)
(* Response.Text on the Response that call c of Do returned.  It runs in   *)
(* the goroutine of the caller, after Do has returned.                     *)
(***************************************************************************)
DoVars == <<req, pc, opts, request, resources, promise, cb, res, err, panicking,
            raised, fired, invocations, reads, double, crashed>>

TextCallPanic == "TypeError: text"

\* lines 733-738: the callback of Text is created, its release deferred
TextNewCallback(c) ==
    /\ ~crashed
    /\ reader
    /\ pc[c] = "returned"
    /\ res[c] # Nil
    /\ tpc[c] = "idle"
    /\ handles' = [handles EXCEPT ![TextHandle(c)] =
                      [created |-> TRUE, bytes |-> <<>>, releases |-> 0]]
    /\ tcb' = [tcb EXCEPT ![c] = "created"]
    /\ tpc' = [tpc EXCEPT ![c] = "call"]
    /\ UNCHANGED <<DoVars, queue, loop, reader, tpromise, tres, tfired, tpanicking,
                   headerVars>>

\* line 739: text() returns a promise and the callback is attached to its
\* success path; either call may throw
TextCall(c) ==
    /\ ~crashed
    /\ tpc[c] = "call"
    /\ \/ /\ tpromise' = [tpromise EXCEPT ![c].state = "pending"]
          /\ tcb' = [tcb EXCEPT ![c] = "attached"]
          /\ tpc' = [tpc EXCEPT ![c] = "wait"]
          /\ UNCHANGED tpanicking
       \/ /\ tpanicking' = [tpanicking EXCEPT ![c] = Some(TextCallPanic)]
          /\ tpc' = [tpc EXCEPT ![c] = "deferred"]
          /\ UNCHANGED <<tpromise, tcb>>
    /\ UNCHANGED <<DoVars, handles, queue, loop, reader, tres, tfired, headerVars>>

\* line 740 with line 736: the receive of Text meets the send of its callback
TextWait(c) ==
    /\ ~crashed
    /\ tpc[c] = "wait"
    /\ loop = NumCalls + c
    /\ loop' = 0
    /\ tcb' = [tcb EXCEPT ![c] = "done"]
    /\ tpc' = [tpc EXCEPT ![c] = "deferred"]
    /\ UNCHANGED <<DoVars, handles, queue, reader, tpromise, tres, tfired, tpanicking,
                   headerVars>>

\* TextDefer that releases the completion callback of Do
TextDeferReleasesDoCallback(c) ==
    /\ ~crashed
    /\ tpc[c] = "deferred"
    /\ handles' = [handles EXCEPT ![CallbackHandle(c)].releases = @ + 1]
    /\ tpc' = [tpc EXCEPT ![c] = IF tpanicking[c] # Nil THEN "panicked" ELSE "returned"]
    /\ UNCHANGED <<DoVars, queue, loop, reader, tpromise, tcb, tres, tfired, tpanicking,
                   headerVars>>

\* lines 738 and 741: the deferred Release runs and Text returns; Text
\* recovers nothing, a panic goes on to its caller
TextDefer(c) ==
    /\ ~crashed
    /\ tpc[c] = "deferred"
    /\ handles' = [handles EXCEPT ![TextHandle(c)].releases = @ + 1]
    /\ tpc' = [tpc EXCEPT ![c] = IF tpanicking[c] # Nil THEN "panicked" ELSE "returned"]
    /\ UNCHANGED <<DoVars, queue, loop, reader, tpromise, tcb, tres, tfired, tpanicking,
                   headerVars>>

\* the host settles the promise of text()
TextResolve(c) ==
    /\ ~crashed
    /\ tpromise[c].state = "pending"
    /\ \E t \in Texts :
          tpromise' = [tpromise EXCEPT ![c] =
                          [state |-> "resolved", value |-> JsString(t), msg |-> ""]]
    /\ UNCHANGED <<DoVars, handles, queue, loop, reader, tpc, tcb, tres, tfired,
                   tpanicking, headerVars>>

TextReject(c) ==
    /\ ~crashed
    /\ tpromise[c].state = "pending"
    /\ \E m \in RejectMessages :
          tpromise' = [tpromise EXCEPT ![c] =
                          [state |-> "rejected", value |-> JsString(""), msg |-> m]]
    /\ UNCHANGED <<DoVars, handles, queue, loop, reader, tpc, tcb, tres, tfired,
                   tpanicking, headerVars>>

\* the resolved promise calls the callback of Text: the call is queued for Go
TextThenFire(c) ==
    /\ ~crashed
    /\ tpromise[c].state = "resolved"
    /\ tcb[c] = "attached"
    /\ tcb' = [tcb EXCEPT ![c] = "queued"]
    /\ queue' = Append(queue, NumCalls + c)
    /\ UNCHANGED <<DoVars, handles, loop, reader, tpc, tpromise, tres, tfired,
                   tpanicking, headerVars>>

\* lines 734-737: the callback goroutine runs the callback of Text; it sets
\* res to the string of its argument and blocks in the send on done
TextCallbackRun ==
    /\ ~crashed
    /\ loop = 0
    /\ queue # <<>>
    /\ Head(queue) \notin Calls
    /\ LET c == Head(queue) - NumCalls
       IN  /\ queue' = Tail(queue)
           /\ tres' = [tres EXCEPT ![c] = tpromise[c].value.str]
           /\ tfired' = [tfired EXCEPT ![c] = TRUE]
           /\ tcb' = [tcb EXCEPT ![c] = "sending"]
           /\ loop' = Head(queue)
    /\ UNCHANGED <<DoVars, handles, reader, tpc, tpromise, tpanicking, headerVars>>

TextStep(c) ==
    \/ TextNewCallback(c)
    \/ TextCall(c)
    \/ TextWait(c)
    \/ TextDefer(c)

TextHostStep(c) ==
    \/ TextResolve(c)
    \/ TextReject(c)
    \/ TextThenFire(c)

(***************************************************************************)
(* Header: a wrapper of the native Headers object, which keeps the values  *)
(* of a header under its lower-case name and combines them with ", ".      *)
(***************************************************************************)
NotHeaderVars == <<req, pc, opts, request, resources, handles, promise, cb, queue, loop,
                   res, err, panicking, raised, fired, invocations, reads, double,
                   crashed, textVars>>

\* the methods of Headers.prototype, the only properties a Headers object has
HeadersMethods ==
    {"append", "delete", "get", "has", "set", "entries", "forEach", "keys", "values"}

\* js.Value.Get on a Headers object: the property of that name
HeadersProperty(key) ==
    IF key \in HeadersMethods
    THEN [type |-> "function", str |-> <<>>]
    ELSE [type |-> "undefined", str |-> <<>>]

\* lines 327-329: Add calls append
HeaderAdd(key, value) ==
    /\ Len(header[Lower(key)]) < MaxHeaderValues
    /\ header' = [header EXCEPT ![Lower(key)] = Append(@, value)]
    /\ lastGet' = Nil
    /\ UNCHANGED NotHeaderVars

\* lines 332-334: Del calls delete
HeaderDel(key) ==
    /\ header' = [header EXCEPT ![Lower(key)] = <<>>]
    /\ lastGet' = Nil
    /\ UNCHANGED NotHeaderVars

\* lines 348-350: Set calls set
HeaderSet(key, value) ==
    /\ header' = [header EXCEPT ![Lower(key)] = <<value>>]
    /\ lastGet' = Nil
    /\ UNCHANGED NotHeaderVars

\* lines 338-344: Get reads the property named key of the Headers object and
\* returns it when it is a string, else ""; a string is a sequence here
HeaderGetResult(key) ==
    LET v == HeadersProperty(key)
    IN  IF v.type = "string" THEN v.str ELSE <<>>

HeaderGet(key) ==
    /\ lastGet' = Some([key |-> key, result |-> HeaderGetResult(key)])
    /\ UNCHANGED header
    /\ UNCHANGED NotHeaderVars

\* a caller that works on a Header and calls nothing else
HeaderInit ==
    /\ InitWith([c \in Calls |-> DefaultRequest], [c \in Calls |-> "idle"], "plain")
    /\ reader = FALSE

HeaderNext ==
    \E key \in HeaderNames, value \in HeaderValues :
        \/ HeaderAdd(key, value)
        \/ HeaderDel(key)
        \/ HeaderSet(key, value)
        \/ HeaderGet(key)

HeaderSpec == HeaderInit /\ [][HeaderNext]_vars

DoStep(c) ==
    \/ DoAssemble(c)
    \/ DoBody(c)
    \/ DoNewRequest(c)
    \/ DoNewCallback(c)
    \/ DoInvoke(c)
    \/ DoRegister(c)
    \/ DoThen(c)
    \/ DoWait(c)
    \/ DoDefer(c)

HostStep(c) ==
    \/ PromiseResolve(c)
    \/ PromiseReject(c)
    \/ ThenFire(c)

Next ==
    \/ \E c \in Calls : DoStep(c)
    \/ \E c \in Calls : HostStep(c)
    \/ CallbackRun
    \/ \E c \in Calls : TextStep(c)
    \/ \E c \in Calls : TextHostStep(c)
    \/ TextCallbackRun

Spec == Init /\ [][Next]_vars

(***************************************************************************)
(* The same program under the scheduling the runtime guarantees: a         *)
(* goroutine that can run does run, the host delivers the callback of a    *)
(* resolved promise.  Nothing obliges a promise to settle.  One call runs.  *)
(***************************************************************************)
FairInit == SingleCall(BasicRequests, "plain") /\ reader = TRUE

Fairness ==
    /\ \A c \in Calls : WF_vars(DoStep(c))
    /\ \A c \in Calls : WF_vars(ThenFire(c))
    /\ WF_vars(CallbackRun)
    /\ \A c \in Calls : WF_vars(TextStep(c))
    /\ \A c \in Calls : WF_vars(TextThenFire(c))
    /\ WF_vars(TextCallbackRun)

FairSpec == FairInit /\ [][Next]_vars /\ Fairness

(***************************************************************************)
(* Properties.                                                             *)
(***************************************************************************)
Returned(c) == pc[c] = "returned"

\* every handle created by call c has been released exactly once
ReleasedOnce(c) ==
    \A h \in HandlesOf(c) : handles[h].created => handles[h].releases = 1

\* C1: when Do has returned, on whichever path, every resource handle created
\* during the call (the typed array of the body, the completion callback) has
\* been released exactly once.
C1_HandlesReleasedOnce == \A c \in Calls : Returned(c) => ReleasedOnce(c)

\* C2: once the promise of fetch has rejected with message m, Do returns a nil
\* Response and an error that carries m (or, had a panic ended the call, the
\* error of the panic).
C2_RejectionSurfaced ==
    \A c \in Calls :
        (promise[c].state = "rejected")
            ~> (/\ Returned(c)
                /\ res[c] = Nil
                /\ err[c] # Nil
                /\ (err[c][1].msg = promise[c].msg \/ raised[c] # Nil))

\* C3: a panic raised at any step of a call, the completion callback included,
\* never ends the process, and the call returns an error with the panic's
\* message.
C3_PanicNeverPropagates ==
    /\ ~crashed
    /\ \A c \in Calls :
          Returned(c) /\ raised[c] # Nil
              => err[c] # Nil /\ err[c][1].msg = raised[c][1]

\* C4: a call that invoked fetch and raised no panic does not leave its wait,
\* and so does not return, before its completion callback has fired.
C4_ReturnAfterCompletion ==
    \A c \in Calls :
        pc[c] \in {"deferred", "returned"} /\ invocations[c] > 0 /\ raised[c] = Nil
            => fired[c]

C4_Witness ==
    \E c \in Calls : Returned(c) /\ invocations[c] > 0 /\ raised[c] = Nil /\ fired[c]

\* the read of the body stream of call c has failed
ReadFailed(c) == req[c].Body.present /\ req[c].Body.fails /\ reads[c] > 0

\* C5: once reading the body has failed, the call is on its way out with a nil
\* Response and the read error, and fetch is never invoked: no native request
\* is constructed and no callback created.
C5_ReadErrorSkipsPrimitive ==
    \A c \in Calls :
        ReadFailed(c)
            => /\ pc[c] \in {"deferred", "returned"}
               /\ res[c] = Nil
               /\ err[c] # Nil /\ err[c][1].kind = "read"
               /\ invocations[c] = 0
               /\ request[c] = Nil
               /\ cb[c] = "none"
               /\ ~handles[CallbackHandle(c)].created
               /\ promise[c].state = "none"

C5_Witness == \E c \in Calls : ReadFailed(c) /\ Returned(c) /\ reads[c] = 1

\* C6: a call that has returned has exactly one of res and err set.
C6_ExactlyOneOutcome ==
    \A c \in Calls : Returned(c) => ((res[c] = Nil) # (err[c] = Nil))

C6_Witness ==
    /\ \E c \in Calls : Returned(c) /\ res[c] # Nil /\ err[c] = Nil
    /\ \E c \in Calls : Returned(c) /\ raised[c] # Nil /\ res[c] = Nil /\ err[c] # Nil

\* the completion callback of call c has got a response whose url parses
ResolvedParsable(c) == fired[c] /\ ParseURL(promise[c].value.url).ok

\* C7: when the completion callback got a response object whose url parses,
\* Do returns a nil error and a Response whose Status, Ok, StatusText and URL
\* are those of the object: {ok: true, status: 200, url: x://x} gives
\* Status 200, Ok true and the host x.
C7_ResponseFromResolved ==
    \A c \in Calls :
        Returned(c) /\ ResolvedParsable(c)
            => LET v == promise[c].value
               IN  /\ err[c] = Nil
                   /\ res[c] # Nil
                   /\ res[c][1].Status = v.status
                   /\ res[c][1].Ok = v.ok
                   /\ res[c][1].StatusText = v.statusText
                   /\ res[c][1].URL = ParseURL(v.url)
                   /\ v.url = GoodUrl
                        => /\ res[c][1].URL.Scheme = <<"x">>
                           /\ res[c][1].URL.Host = <<"x">>

C7_Witness ==
    \E c \in Calls :
        /\ Returned(c)
        /\ promise[c].value = [DefaultJsResponse EXCEPT !.status = 404, !.ok = FALSE,
                                                        !.statusText = "Not Found"]
        /\ res[c] # Nil
        /\ res[c][1].Status = 404
        /\ res[c][1].URL.Host = <<"x">>

\* the completion callback of call c has got a response whose url does not parse
ResolvedMalformed(c) == fired[c] /\ ~ParseURL(promise[c].value.url).ok

\* C8: when the completion callback got a response whose url does not parse,
\* the call does not block but returns, and it returns a nil Response and the
\* error of the parse, every handle it created released.
C8_MalformedUrlSafety ==
    \A c \in Calls :
        Returned(c) /\ ResolvedMalformed(c)
            => /\ res[c] = Nil
               /\ err[c] # Nil /\ err[c][1].kind = "url"
               /\ promise[c].state = "resolved"
               /\ ReleasedOnce(c)

C8_MalformedUrlIsError ==
    /\ [] C8_MalformedUrlSafety
    /\ \A c \in Calls : ResolvedMalformed(c) ~> Returned(c)

C8_Witness ==
    \E c \in Calls :
        /\ Returned(c)
        /\ ResolvedMalformed(c)
        /\ promise[c].value.url = BadUrl
        /\ handles[BodyHandle(c)].releases = 1
        /\ handles[CallbackHandle(c)].releases = 1

(***************************************************************************)
(* The wire strings of the fetch options.                                  *)
(***************************************************************************)
ModeWire == (1 :> "same-origin") @@ (2 :> "no-cors") @@ (4 :> "cors") @@ (8 :> "navigate")
CredentialsWire == (1 :> "omit") @@ (2 :> "same-origin") @@ (4 :> "include")
CacheWire ==
    (1 :> "default") @@ (2 :> "no-store") @@ (4 :> "reload") @@ (8 :> "no-cache")
        @@ (16 :> "force-cache") @@ (32 :> "only-if-cached")
RedirectWire == (1 :> "follow") @@ (2 :> "error") @@ (4 :> "manual")

\* the option map of call c is complete
Assembled(c) ==
    /\ pc[c] \notin {"idle", "assemble", "body"}
    /\ ~req[c].isNil
    /\ ~ReadFailed(c)

HasString(o, k, s) == k \in DOMAIN o /\ o[k].type = "string" /\ o[k].str = s
HasObject(o, k, r) == k \in DOMAIN o /\ o[k].type = "object" /\ o[k].ref = r

\* C9: in the complete option map every field that is set has its wire key
\* and its value: method, headers (the native reference), mode, credentials,
\* cache and redirect (the wire string), referrer, integrity and body (the
\* typed array that holds the bytes read).
C9_SetFieldsForwarded ==
    \A c \in Calls :
        Assembled(c)
            => LET r == req[c]
                   o == opts[c]
               IN  /\ r.Method # "" => HasString(o, "method", r.Method)
                   /\ r.Header # Nil => HasObject(o, "headers", r.Header[1].value)
                   /\ r.Mode \in DOMAIN ModeWire => HasString(o, "mode", ModeWire[r.Mode])
                   /\ r.Credentials \in DOMAIN CredentialsWire
                        => HasString(o, "credentials", CredentialsWire[r.Credentials])
                   /\ r.Cache \in DOMAIN CacheWire => HasString(o, "cache", CacheWire[r.Cache])
                   /\ r.Redirect \in DOMAIN RedirectWire
                        => HasString(o, "redirect", RedirectWire[r.Redirect])
                   /\ r.Referer # "" => HasString(o, "referrer", r.Referer)
                   /\ r.Integrity # "" => HasString(o, "integrity", r.Integrity)
                   /\ r.Body.present
                        => /\ HasObject(o, "body", BodyHandle(c))
                           /\ handles[BodyHandle(c)].created
                           /\ handles[BodyHandle(c)].bytes = r.Body.data

C9_Witness ==
    \E c \in Calls :
        /\ Assembled(c)
        /\ req[c].Cache = NoStore
        /\ HasString(opts[c], "cache", "no-store")
        /\ Cardinality(DOMAIN opts[c]) = 9

\* C10: the option map never has the wire key of a field that is unset (empty
\* Method, nil Header, nil Body, empty Referer or Integrity, an enum value
\* without wire string), and no key has the empty string as its value.
C10_UnsetFieldsOmitted ==
    \A c \in Calls :
        LET r == req[c]
            o == opts[c]
        IN  /\ r.Method = "" => "method" \notin DOMAIN o
            /\ r.Header = Nil => "headers" \notin DOMAIN o
            /\ r.Mode \notin DOMAIN ModeWire => "mode" \notin DOMAIN o
            /\ r.Credentials \notin DOMAIN CredentialsWire => "credentials" \notin DOMAIN o
            /\ r.Cache \notin DOMAIN CacheWire => "cache" \notin DOMAIN o
            /\ r.Redirect \notin DOMAIN RedirectWire => "redirect" \notin DOMAIN o
            /\ r.Referer = "" => "referrer" \notin DOMAIN o
            /\ r.Integrity = "" => "integrity" \notin DOMAIN o
            /\ ~r.Body.present => "body" \notin DOMAIN o
            /\ \A k \in DOMAIN o : ~(o[k].type = "string" /\ o[k].str = "")

C10_Witness ==
    \E c \in Calls :
        /\ Assembled(c)
        /\ req[c].Cache = 3
        /\ req[c].Mode = 0
        /\ req[c].Method = "POST"
        /\ DOMAIN opts[c] = {"method"}

\* some field of request r makes an option
SomeFieldSet(r) ==
    \/ r.Method # ""
    \/ r.Header # Nil
    \/ r.Mode \in DOMAIN ModeWire
    \/ r.Credentials \in DOMAIN CredentialsWire
    \/ r.Cache \in DOMAIN CacheWire
    \/ r.Redirect \in DOMAIN RedirectWire
    \/ r.Referer # ""
    \/ r.Integrity # ""
    \/ r.Body.present

\* C11: the native request is constructed with the option map as its second
\* argument if and only if the assembled map is not empty (some field of the
\* request is set); the map forwarded is the assembled one, and with an empty
\* map the url is the only argument.
C11_OptsForwardedIffNonEmpty ==
    \A c \in Calls :
        request[c] # Nil
            => LET a == request[c][1]
               IN  /\ a.url = req[c].URL
                   /\ a.hasOpts <=> DOMAIN opts[c] # {}
                   /\ a.hasOpts <=> SomeFieldSet(req[c])
                   /\ a.hasOpts => a.opts = opts[c]
                   /\ ~a.hasOpts => DOMAIN a.opts = {}

C11_Witness ==
    /\ \E c \in Calls : request[c] # Nil /\ ~request[c][1].hasOpts
    /\ \E c \in Calls : /\ request[c] # Nil
                        /\ request[c][1].hasOpts
                        /\ DOMAIN request[c][1].opts = {"method", "body"}

\* Text on the Response of call c has returned normally
TextReturned(c) == tpc[c] = "returned"

C12_TextSafety ==
    \A c \in Calls :
        /\ tpc[c] # "idle" => pc[c] = "returned" /\ res[c] # Nil
        /\ tpc[c] \in {"call", "wait"}
              => handles[TextHandle(c)].created /\ handles[TextHandle(c)].releases = 0
        /\ tpc[c] \in {"deferred", "returned"} /\ tpanicking[c] = Nil
              => /\ tfired[c]
                 /\ tpromise[c].state = "resolved"
                 /\ tpromise[c].value.type = "string"
                 /\ tres[c] = tpromise[c].value.str
        /\ tpc[c] \in {"returned", "panicked"} => handles[TextHandle(c)].releases = 1
        /\ TextHandle(c) \notin HandlesOf(c)
        /\ \A i \in 1..Len(resources[c]) : resources[c][i] # TextHandle(c)
        /\ tpc[c] # "idle" => ReleasedOnce(c)

\* once Do has returned, no later step changes a handle of that call
C12_DoHandlesUntouched ==
    \A c \in Calls :
        pc[c] = "returned" => \A h \in HandlesOf(c) : handles'[h] = handles[h]

\* C12: Text runs after the call of Do that made its Response has returned and
\* released its handles; it creates a callback of its own, leaves its wait only
\* when that callback has fired with the resolved text, returns that text, has
\* released its callback exactly once when it returns, and neither registers
\* its callback with Do nor changes any handle of Do.
C12_TextOwnCallback == [] C12_TextSafety /\ [][C12_DoHandlesUntouched]_vars

C12_Witness ==
    \E c \in Calls :
        /\ TextReturned(c)
        /\ tres[c] = "hello"
        /\ handles[TextHandle(c)].releases = 1
        /\ handles[BodyHandle(c)].releases = 1
        /\ handles[CallbackHandle(c)].releases = 1

\* what each call holds is its own
C13_OwnState ==
    \A c \in Calls :
        /\ \A i \in 1..Len(resources[c]) : resources[c][i] \in HandlesOf(c)
        /\ request[c] # Nil
              => request[c][1].url = req[c].URL /\ request[c][1].opts = opts[c]
        /\ pc[c] \in {"deferred", "returned"} /\ fired[c]
              => /\ promise[c].state = "resolved"
                 /\ res[c] # Nil => res[c][1].value = promise[c].value
                 /\ res[c] = Nil <=> ~ParseURL(promise[c].value.url).ok
                 /\ res[c] = Nil => err[c] # Nil /\ err[c][1].kind = "url"

\* a call leaves its wait only through its own completion, no step moves two
\* calls, and the handles of a call are released only by its own return
C13_OwnSteps ==
    \A c \in Calls :
        /\ pc[c] = "wait" /\ pc'[c] # "wait"
              => fired[c] /\ loop = c /\ cb[c] = "sending"
        /\ pc'[c] # pc[c] => \A d \in Calls \ {c} : pc'[d] = pc[d]
        /\ (\E h \in HandlesOf(c) : handles'[h].releases # handles[h].releases)
              => pc[c] = "deferred" /\ pc'[c] = "returned"
        /\ res'[c] # res[c] \/ fired'[c] # fired[c]
              => queue # <<>> /\ Head(queue) = c /\ promise[c].state = "resolved"

\* C13: in every interleaving of concurrent calls of Do, the completion of
\* one call's fetch unblocks that call only, each call returns the response
\* or error of its own promise, and each call releases its own handles only.
C13_CallsIndependent == [] C13_OwnState /\ [][C13_OwnSteps]_vars

C13_Witness ==
    \E c, d \in Calls :
        /\ c # d
        /\ Returned(c) /\ res[c] # Nil /\ req[c] = DefaultRequest
        /\ pc[d] = "wait" /\ ~fired[d] /\ promise[d].state = "resolved"
        /\ ~ParseURL(promise[d].value.url).ok

\* the promise of call c has settled
Settled(c) == promise[c].state \in {"resolved", "rejected"}

\* C14: a call whose promise settles, resolved or rejected, returns in the end
\* (unless a panic has ended the process first), and a call that invoked
\* fetch and raised no panic returns only when its promise has settled.
C14_SettledCallsReturn ==
    /\ \A c \in Calls : Settled(c) ~> (Returned(c) \/ crashed)
    /\ [](\A c \in Calls :
             Returned(c) /\ invocations[c] > 0 /\ raised[c] = Nil => Settled(c))

\* the combined string of a list of values: the values with ", " between them
RECURSIVE Combined(_)
Combined(values) ==
    IF values = <<>> THEN <<>>
    ELSE IF Len(values) = 1 THEN <<values[1]>>
    ELSE <<values[1], ", ">> \o Combined(Tail(values))

\* C15: Get(name) returns the combined string of the values stored for name
\* after the Add, Set and Del calls so far, and the empty string when none is
\* stored; right after Set(name, v) it returns v.
C15_GetReturnsStored ==
    lastGet # Nil => lastGet[1].result = Combined(header[Lower(lastGet[1].key)])

\* handle h is in the resource list of call c
Registered(c, h) == \E i \in 1..Len(resources[c]) : resources[c][i] = h

\* C16: the completion callback is a resource handle of its call: once created
\* it is in the resource list before the next step that can fail (the
\* invocation of fetch), it has been released exactly once when Do has
\* returned, and it is never released before it has fired.
C16_CallbackIsResource ==
    \A c \in Calls :
        /\ handles[CallbackHandle(c)].created /\ pc[c] = "invoke"
              => Registered(c, CallbackHandle(c))
        /\ handles[CallbackHandle(c)].created /\ Returned(c)
              => handles[CallbackHandle(c)].releases = 1
        /\ handles[CallbackHandle(c)].releases > 0 => fired[c]

\* C17: a call with a body reads the stream exactly once and whole before
\* fetch is invoked: at the invocation the typed array holds every byte of the
\* stream; fetch is invoked at most once per call, never after a failed read,
\* and a call without a body reads nothing.
C17_BodyReadOnceBeforeInvoke ==
    \A c \in Calls :
        /\ reads[c] <= 1
        /\ invocations[c] <= 1
        /\ ~req[c].Body.present => reads[c] = 0
        /\ req[c].Body.present /\ pc[c] \notin {"idle", "assemble", "body"}
              => reads[c] = 1
        /\ req[c].Body.present /\ invocations[c] > 0
              => /\ reads[c] = 1
                 /\ ~req[c].Body.fails
                 /\ handles[BodyHandle(c)].created
                 /\ handles[BodyHandle(c)].bytes = req[c].Body.data
                 /\ HasObject(request[c][1].opts, "body", BodyHandle(c))

C17_Witness ==
    \E c \in Calls :
        /\ req[c].Body.present /\ req[c].Body.data # <<>>
        /\ invocations[c] = 1 /\ reads[c] = 1
        /\ Returned(c) /\ res[c] # Nil

\* the enum member whose wire string is s, 0 when there is none
TypeOfWire(s) ==
    CASE s = "basic" -> BasicResponse
      [] s = "cors" -> CorsResponse
      [] s = "error" -> ErrorResponse
      [] s = "opaque" -> OpaqueResponse
      [] s = "opaqueredirect" -> OpaqueRedirectResponse
      [] OTHER -> 0

\* C18: the Response of a successful call carries the redirected flag of the
\* resolved response, and its Type is the enum member whose wire string is the
\* resolved type string.
C18_RedirectedAndType ==
    \A c \in Calls :
        Returned(c) /\ res[c] # Nil
            => /\ res[c][1].Redirected = promise[c].value.redirected
               /\ res[c][1].Type = TypeOfWire(promise[c].value.type)

\* C19: once fetch has been invoked and has returned its promise, no handle of
\* the call (the typed array of the body, the completion callback) is released
\* before the completion callback has fired, a panic after the invocation
\* included.
C19_NoReleaseInFlight ==
    \A c \in Calls : \A h \in HandlesOf(c) :
        invocations[c] > 0 /\ promise[c].state # "none" /\ handles[h].releases > 0
            => fired[c]

====
